---- MODULE Spec2Model ----
(***************************************************************************)
(* A model of the WMATA ingestion pipeline (src/ProyectoFinal.py and its   *)
(* two layer scripts): the Delta Lake writers save_data_as_delta and       *)
(* save_new_data_as_delta, and the column denormaliser explode_columns.    *)
(*                                                                         *)
(* A Delta table is its column names, its rows in order and its partition  *)
(* columns, or Absent.  A row is a record of cells; a cell is a scalar, a  *)
(* list or the null NaN (NULL in a table).                                 *)
(* A pandas object is a record of kind "DataFrame" (columns and rows) or   *)
(* None.  A merge predicate "target.c1 = source.c1 AND ..." is the set of   *)
(* columns {c1, ...} it compares.                                          *)
(***************************************************************************)
EXTENDS Integers, Sequences, FiniteSets, TLC

VARIABLES
    table,            \* the Delta table at the writers' location
    call,             \* the writer call in progress
    writers,          \* concurrent callers of the upsert: each one's call
    exclusive,        \* whether the location has one writer at a time
    order,            \* the concurrent callers in the order they ended
    df_origin,        \* explode_columns: the source frame
    cols_to_select,   \* explode_columns: the columns to select
    cols_to_explode,  \* explode_columns: the columns to explode
    df_result,        \* explode_columns: what it returned
    datalake,         \* the pipeline's Delta tables by location
    pc,               \* the pipeline run: the step to execute next
    status,           \* the pipeline run: "running", "done" or "aborted"
    now,              \* the reading of datetime.now() in this run
    json_paradas_bus,
    json_posiciones_bus,
    dataFrameFull,
    dataFrameIncremental,
    dataFrameFull_Routes,
    response,         \* get_data: the outcome of the last requests.get
    stdout,           \* the messages printed in this run, in order
    before,           \* the data lake as this run found it
    complete,         \* the data lake as the last earlier complete run left it
    executed          \* the steps this run has executed, in order

concurrent_vars == <<writers, exclusive, order>>
writer_vars == <<table, call, concurrent_vars>>
explode_vars == <<df_origin, cols_to_select, cols_to_explode, df_result>>
run_vars == <<pc, status, now, json_paradas_bus, json_posiciones_bus,
              dataFrameFull, dataFrameIncremental, dataFrameFull_Routes>>
log_vars == <<response, stdout>>
history_vars == <<before, complete, executed>>
pipeline_vars == <<datalake, run_vars, log_vars, history_vars>>
vars == <<writer_vars, explode_vars, pipeline_vars>>

(***************************************************************************)
(* Bounds of the model.                                                    *)
(***************************************************************************)
MaxBatch == 2
MaxRows == 3
MaxFrameRows == 2
MaxRuns == 2

(***************************************************************************)
(* Values.                                                                 *)
(***************************************************************************)
Scalar(a) == [k |-> "scalar", v |-> <<a>>]
List(l) == [k |-> "list", v |-> l]
NaN == [k |-> "nan", v |-> <<>>]
NULL == NaN

Absent == [exists |-> FALSE, columns |-> {}, rows |-> <<>>, part |-> <<>>]
None == [kind |-> "None", columns |-> {}, rows |-> <<>>]
DataFrame(columns, rows) ==
    [kind |-> "DataFrame", columns |-> columns, rows |-> rows]

Row(id, v) == [id |-> id, v |-> v]
k1A == Row(Scalar("k1"), Scalar("A"))
k1B == Row(Scalar("k1"), Scalar("B"))
k2A == Row(Scalar("k2"), Scalar("A"))
nullA == Row(NULL, Scalar("A"))
Rows == {k1A, k1B, k2A, nullA}
TableColumns == {"id", "v"}

SeqUpTo(S, n) == UNION {[1..k -> S] : k \in 0..n}
Batches ==
    {DataFrame(TableColumns, rows) : rows \in SeqUpTo(Rows, MaxBatch)} \cup {None}

\* "target.id = source.id", "target.id = source.id AND target.v = source.v",
\* and a predicate that names a column the tables do not have.
Predicates == {{"id"}, {"id", "v"}, {"zz"}}
PartitionCols == {<<>>, <<"v">>}
Modes == {"overwrite", "append", "error", "ignore"}
Faults == {"none", "open", "convert", "merge", "write"}

Count(r, s) == Cardinality({i \in 1..Len(s) : s[i] = r})

(***************************************************************************)
(* write_deltalake(path, df, mode, partition_by): the library's full       *)
(* write.  Data that is no frame, or partition columns the frame lacks,    *)
(* raise.  A table that does not exist is created whatever the mode.  On   *)
(* an existing table a frame of other columns raises, then "error" raises, *)
(* "ignore" writes nothing, a partition_by that differs from the table's   *)
(* partitioning raises, "overwrite" replaces the rows and "append" adds    *)
(* them.  fault = "write" is a storage failure.                            *)
(***************************************************************************)
write_deltalake(tbl, df, mode, partition_by, fault) ==
    IF df.kind # "DataFrame"
    THEN [raised |-> "TypeError", table |-> tbl]
    ELSE IF fault = "write"
    THEN [raised |-> "DeltaError", table |-> tbl]
    ELSE IF ~({partition_by[i] : i \in 1..Len(partition_by)} \subseteq df.columns)
    THEN [raised |-> "DeltaError", table |-> tbl]
    ELSE IF ~tbl.exists
    THEN [raised |-> "none",
          table |-> [exists |-> TRUE, columns |-> df.columns, rows |-> df.rows,
                     part |-> partition_by]]
    ELSE IF df.columns # tbl.columns
    THEN [raised |-> "ValueError", table |-> tbl]
    ELSE IF mode = "error"
    THEN [raised |-> "AssertionError", table |-> tbl]
    ELSE IF mode = "ignore"
    THEN [raised |-> "none", table |-> tbl]
    ELSE IF partition_by # <<>> /\ partition_by # tbl.part
    THEN [raised |-> "AssertionError", table |-> tbl]
    ELSE IF mode = "overwrite"
    THEN [raised |-> "none", table |-> [tbl EXCEPT !.rows = df.rows]]
    ELSE [raised |-> "none",
          table |-> [tbl EXCEPT !.rows = tbl.rows \o df.rows]]

\* def save_data_as_delta(df, path, mode="overwrite", partition_cols=None)
DefaultModeAppend == "append"
DefaultMode == "overwrite"

ResolveMode(mode) == IF mode = "unspecified" THEN DefaultMode ELSE mode

save_data_as_delta(tbl, df, mode, partition_cols, fault) ==
    write_deltalake(tbl, df, ResolveMode(mode), partition_cols, fault)

(***************************************************************************)
(* The merge of save_new_data_as_delta: predicate equality is SQL          *)
(* equality, so a null key matches nothing; when_not_matched_insert_all    *)
(* inserts every source row that matches no target row, and there is no    *)
(* when_matched clause.                                                    *)
(***************************************************************************)
Matches(t, s, predicate) ==
    \A c \in predicate : t[c] # NULL /\ s[c] # NULL /\ t[c] = s[c]

HasMatch(rows, s, predicate) ==
    \E i \in 1..Len(rows) : Matches(rows[i], s, predicate)

NotMatched(rows, source, predicate) ==
    SelectSeq(source, LAMBDA s : ~HasMatch(rows, s, predicate))

MergeUpdating(rows, source, predicate) ==
    [i \in 1..Len(rows) |->
        IF \E j \in 1..Len(source) : Matches(rows[i], source[j], predicate)
        THEN source[CHOOSE j \in 1..Len(source) :
                        Matches(rows[i], source[j], predicate)]
        ELSE rows[i]]
    \o NotMatched(rows, source, predicate)

merge(rows, source, predicate) ==
    rows \o NotMatched(rows, source, predicate)

\* except TableNotFoundError:
RecoversAny(exc) == exc # "none"
Recovers(exc) == exc = "TableNotFoundError"

\* What the try block of save_new_data_as_delta raises, or "none":
\* DeltaTable(data_path), then pa.Table.from_pandas(new_data), then the merge,
\* whose predicate must name columns of both the target and the source.
TryRaises(tbl, new_data, predicate, fault) ==
    IF fault = "open" THEN "DeltaError"
    ELSE IF ~tbl.exists THEN "TableNotFoundError"
    ELSE IF new_data.kind # "DataFrame" THEN "TypeError"
    ELSE IF fault = "convert" THEN "ArrowInvalid"
    ELSE IF ~(predicate \subseteq (tbl.columns \cap new_data.columns))
    THEN "DeltaError"
    ELSE IF fault = "merge" THEN "DeltaError"
    ELSE "none"

FallbackIgnoringPartition(tbl, new_data, partition_cols, fault) ==
    save_data_as_delta(tbl, new_data, "unspecified", <<>>, fault)
Fallback(tbl, new_data, partition_cols, fault) ==
    save_data_as_delta(tbl, new_data, "unspecified", partition_cols, fault)

save_new_data_as_delta(tbl, new_data, predicate, partition_cols, fault) ==
    LET exc == TryRaises(tbl, new_data, predicate, fault) IN
    IF exc = "none"
    THEN [raised |-> "none", path |-> "merge",
          table |-> [tbl EXCEPT
                        !.rows = merge(tbl.rows, new_data.rows, predicate)]]
    ELSE IF Recovers(exc)
    THEN LET w == Fallback(tbl, new_data, partition_cols, fault) IN
         [raised |-> w.raised, path |-> "fallback", table |-> w.table]
    ELSE [raised |-> exc, path |-> "none", table |-> tbl]

(***************************************************************************)
(* The state: the table at one location, and the call in progress: its     *)
(* arguments once the caller has made it, and the table it found and how   *)
(* it ended once it has run.                                               *)
(***************************************************************************)
NoCall == [phase |-> "idle", op |-> "none", batch |-> None, predicate |-> {},
           mode |-> "none", partition_cols |-> <<>>, prior |-> Absent,
           fault |-> "none", raised |-> "none", path |-> "none"]

NoFrame == [columns |-> {}, rows |-> <<>>]
NotRun == [status |-> "pending", columns |-> {}, rows |-> <<>>]

\* The processes that call the upsert on one location, and a process that
\* has not called it yet.
Procs == {1, 2}
Waiting(new_data) ==
    [phase |-> "waiting", new_data |-> new_data, found |-> FALSE,
     path |-> "none", raised |-> "none"]

\* The writers' calls and explode_columns before any call.
NoCalls ==
    /\ table = Absent
    /\ call = NoCall
    /\ writers = [p \in Procs |-> Waiting(None)]
    /\ exclusive = TRUE
    /\ order = <<>>

NoExplode ==
    /\ df_origin = NoFrame
    /\ cols_to_select = <<>>
    /\ cols_to_explode = <<>>
    /\ df_result = NotRun

\* The pipeline before its first run: no table in the data lake, the script
\* at its first statement.
Locations == {"bronze/stop_Search", "bronze/bus_Position", "silver/stop_Search",
              "silver/bus_Position", "silver/stop_Search_Routes"}

\* No request has been made.
NoResponse ==
    [data_field |-> "none", error |-> "none", status_code |-> 0,
     body |-> [kind |-> "none", fields |-> {}, data |-> None]]

FirstRun ==
    /\ datalake = [l \in Locations |-> Absent]
    /\ pc = "get_data_stops"
    /\ status = "running"
    /\ now = 1
    /\ json_paradas_bus = None
    /\ json_posiciones_bus = None
    /\ dataFrameFull = None
    /\ dataFrameIncremental = None
    /\ dataFrameFull_Routes = None
    /\ response = NoResponse
    /\ stdout = <<>>
    /\ before = [l \in Locations |-> Absent]
    /\ complete = [l \in Locations |-> Absent]
    /\ executed = <<>>

Init == NoCalls /\ NoExplode /\ FirstRun

\* The caller reaches save_new_data_as_delta(new_data, data_path, predicate,
\* partition_cols) with its arguments.
CallSaveNewData ==
    /\ call.phase = "idle"
    /\ \E new_data \in Batches, predicate \in Predicates,
          partition_cols \in PartitionCols :
        /\ Len(save_new_data_as_delta(table, new_data, predicate,
                                      partition_cols, "none").table.rows)
              <= MaxRows
        /\ call' = [NoCall EXCEPT !.phase = "called", !.op = "upsert",
                                  !.batch = new_data, !.predicate = predicate,
                                  !.partition_cols = partition_cols]
    /\ UNCHANGED <<table, concurrent_vars, explode_vars, pipeline_vars>>

\* The body of save_new_data_as_delta; the storage may fail at any of its calls.
SaveNewData ==
    /\ call.phase = "called"
    /\ call.op = "upsert"
    /\ \E fault \in Faults :
        LET r == save_new_data_as_delta(table, call.batch, call.predicate,
                                        call.partition_cols, fault) IN
        /\ table' = r.table
        /\ call' = [call EXCEPT !.phase = "returned", !.prior = table,
                                !.fault = fault, !.raised = r.raised,
                                !.path = r.path]
    /\ UNCHANGED <<concurrent_vars, explode_vars, pipeline_vars>>

\* The caller reaches save_data_as_delta(df, path[, mode][, partition_cols]).
CallSaveData ==
    /\ call.phase = "idle"
    /\ \E df \in Batches, mode \in Modes \cup {"unspecified"},
          partition_cols \in PartitionCols :
        /\ Len(save_data_as_delta(table, df, mode, partition_cols,
                                  "none").table.rows) <= MaxRows
        /\ call' = [NoCall EXCEPT !.phase = "called", !.op = "write",
                                  !.batch = df, !.mode = mode,
                                  !.partition_cols = partition_cols]
    /\ UNCHANGED <<table, concurrent_vars, explode_vars, pipeline_vars>>

\* The body of save_data_as_delta.
SaveData ==
    /\ call.phase = "called"
    /\ call.op = "write"
    /\ \E fault \in {"none", "write"} :
        LET r == save_data_as_delta(table, call.batch, call.mode,
                                    call.partition_cols, fault) IN
        /\ table' = r.table
        /\ call' = [call EXCEPT !.phase = "returned", !.prior = table,
                                !.fault = fault, !.raised = r.raised]
    /\ UNCHANGED <<concurrent_vars, explode_vars, pipeline_vars>>

\* The call is over; the caller goes on to its next call.
Return ==
    /\ call.phase = "returned"
    /\ call' = NoCall
    /\ UNCHANGED <<table, concurrent_vars, explode_vars, pipeline_vars>>

Next == CallSaveNewData \/ SaveNewData \/ CallSaveData \/ SaveData \/ Return

Spec == Init /\ [][Next]_vars

(***************************************************************************)
(* Two processes that each call save_new_data_as_delta(new_data, data_path, *)
(* "target.id = source.id") once on the same location, absent at first.    *)
(* A call is two steps: DeltaTable(data_path), which finds the table or     *)
(* raises TableNotFoundError, and then the merge or the fallback write on   *)
(* the table as it is by then.  Under the single-writer discipline          *)
(* (exclusive) a process starts its call only when no other call is in      *)
(* progress.                                                                *)
(***************************************************************************)
ConcurrentBatches == {b \in Batches : b.kind = "DataFrame" /\ b.rows # <<>>}

InitConcurrent ==
    /\ table = Absent
    /\ call = NoCall
    /\ writers \in [Procs -> {Waiting(b) : b \in ConcurrentBatches}]
    /\ exclusive \in BOOLEAN
    /\ order = <<>>
    /\ NoExplode
    /\ FirstRun

\* No lock is taken: any process may start at any time.
MayEnterAlways(p) == TRUE

\* One writer per location at a time, where that is the discipline.
MayEnter(p) ==
    exclusive => \A q \in Procs \ {p} : writers[q].phase # "opened"

\* dt = DeltaTable(data_path)
Open(p) ==
    /\ writers[p].phase = "waiting"
    /\ MayEnter(p)
    /\ \E fault \in {"none", "open"} :
        IF fault = "open"
        THEN /\ writers' = [writers EXCEPT ![p].phase = "ended",
                                           ![p].raised = "DeltaError"]
             /\ order' = Append(order, p)
        ELSE /\ writers' = [writers EXCEPT ![p].phase = "opened",
                                           ![p].found = table.exists]
             /\ order' = order
    /\ UNCHANGED <<table, call, exclusive, explode_vars, pipeline_vars>>

\* The rest of the call, for the process that found the table or did not.
Finish(tbl, found, new_data, fault) ==
    IF found
    THEN save_new_data_as_delta(tbl, new_data, {"id"}, <<>>, fault)
    ELSE IF Recovers("TableNotFoundError")
    THEN LET w == Fallback(tbl, new_data, <<>>, fault) IN
         [raised |-> w.raised, path |-> "fallback", table |-> w.table]
    ELSE [raised |-> "TableNotFoundError", path |-> "none", table |-> tbl]

\* The merge, or the fallback write after TableNotFoundError.
Write(p) ==
    /\ writers[p].phase = "opened"
    /\ \E fault \in {"none", "merge", "write"} :
        LET r == Finish(table, writers[p].found, writers[p].new_data, fault) IN
        /\ table' = r.table
        /\ writers' = [writers EXCEPT ![p].phase = "ended",
                                      ![p].path = r.path,
                                      ![p].raised = r.raised]
    /\ order' = Append(order, p)
    /\ UNCHANGED <<call, exclusive, explode_vars, pipeline_vars>>

NextConcurrent == \E p \in Procs : Open(p) \/ Write(p)

SpecConcurrent == InitConcurrent /\ [][NextConcurrent]_vars

(***************************************************************************)
(* The upsert writer's claims.  Returned(op) is a state in which a call of *)
(* op has just run: call holds its arguments, the table it found (prior)   *)
(* and how it ended; table is what it left.                                *)
(***************************************************************************)
Returned(op) == call.phase = "returned" /\ call.op = op

Upserted == Returned("upsert") /\ call.raised = "none"

\* C1: after a successful save_new_data_as_delta(B, T, predicate), calling it
\* again with the same arguments raises nothing and leaves the table as the
\* first call left it: the second call inserts no row.
C1_UpsertIdempotent ==
    Upserted =>
        LET again == save_new_data_as_delta(table, call.batch, call.predicate,
                                            call.partition_cols, "none") IN
        /\ again.raised = "none"
        /\ again.table = table

\* C2: on the merge path every row of the existing table is still in the
\* table afterwards, as often as before and in its place, also when a source
\* row matches it by the predicate and differs elsewhere: target {(k1,A)},
\* source {(k1,B),(k2,A)}, predicate on id leaves {(k1,A),(k2,A)}.
C2_MergeInsertOnly ==
    (Returned("upsert") /\ call.path = "merge") =>
        /\ Len(table.rows) >= Len(call.prior.rows)
        /\ \A i \in 1..Len(call.prior.rows) : table.rows[i] = call.prior.rows[i]
        /\ \A r \in Rows : Count(r, table.rows) >= Count(r, call.prior.rows)
        /\ ( /\ call.prior.rows = <<k1A>>
             /\ call.batch.rows = <<k1B, k2A>>
             /\ call.predicate = {"id"}
             /\ call.raised = "none" )
           => table.rows = <<k1A, k2A>>

C2_Witness ==
    /\ Upserted
    /\ call.path = "merge"
    /\ call.prior.rows = <<k1A>>
    /\ call.batch.rows = <<k1B, k2A>>
    /\ call.predicate = {"id"}
    /\ table.rows = <<k1A, k2A>>

\* C3: after a successful save_new_data_as_delta every row of new_rows that
\* had no predicate match in the prior table is in the table exactly once.
C3_InsertedExactlyOnce ==
    Upserted =>
        \A i \in 1..Len(call.batch.rows) :
            ~HasMatch(call.prior.rows, call.batch.rows[i], call.predicate)
                => Count(call.batch.rows[i], table.rows) = 1

\* C4: when no table exists at the location a successful
\* save_new_data_as_delta takes the fallback path and leaves the table that
\* save_data_as_delta(B, location, "overwrite", partition_cols) leaves: all
\* rows of B, in B's order, none filtered by the predicate, partitioned by
\* partition_cols.  When a table exists it takes the merge path, which keeps
\* the table's partitioning and inserts the same rows whatever partition_cols.
C4_FallbackIsFullWrite ==
    Upserted =>
        /\ ~call.prior.exists =>
            /\ call.path = "fallback"
            /\ table = [exists |-> TRUE, columns |-> call.batch.columns,
                        rows |-> call.batch.rows, part |-> call.partition_cols]
            /\ table = save_data_as_delta(call.prior, call.batch, "overwrite",
                                          call.partition_cols, "none").table
        /\ call.prior.exists =>
            /\ call.path = "merge"
            /\ table.part = call.prior.part
            /\ \A other \in PartitionCols :
                table = save_new_data_as_delta(call.prior, call.batch,
                                               call.predicate, other, "none").table

\* The fallback writes a batch whose second row the predicate would have
\* filtered as a repeat of the first, partitioned.
C4_Witness ==
    /\ Upserted
    /\ ~call.prior.exists
    /\ call.path = "fallback"
    /\ call.partition_cols = <<"v">>
    /\ call.predicate = {"id"}
    /\ call.batch.rows = <<k1A, k1B>>
    /\ table.rows = call.batch.rows
    /\ table.part = <<"v">>

\* C5: when opening the table, converting the batch or merging fails with
\* anything but table-not-found, save_new_data_as_delta raises that failure
\* to its caller, performs no fallback write and leaves the table as it was;
\* the fallback path is taken only when no table exists.
C5_OnlyTableNotFoundRecovered ==
    Returned("upsert") =>
        LET exc == TryRaises(call.prior, call.batch, call.predicate,
                             call.fault) IN
        /\ exc \notin {"none", "TableNotFoundError"} =>
            /\ call.raised = exc
            /\ call.path = "none"
            /\ table = call.prior
        /\ call.path = "fallback" => ~call.prior.exists

\* A merge with a predicate naming a column the table lacks fails on a table
\* that holds rows, with a batch the fallback would have written.
C5_Witness ==
    /\ Returned("upsert")
    /\ call.prior.exists
    /\ Len(call.prior.rows) > 0
    /\ call.predicate = {"zz"}
    /\ Len(call.batch.rows) > 0
    /\ call.raised = "DeltaError"
    /\ call.path = "none"
    /\ table = call.prior

(***************************************************************************)
(* explode_columns.  A frame is its column names and its rows in order; a  *)
(* row is its pandas index label (idx, which explode repeats) and its      *)
(* cells by column.                                                        *)
(***************************************************************************)
Range(s) == {s[i] : i \in 1..Len(s)}

SourceColumns == {"StopID", "Name", "Routes"}
StopIDCells == {Scalar("s1"), Scalar("s2")}
NameCells == {Scalar("n"), List(<<"p", "q">>)}
RoutesCells == {List(<<>>), List(<<"a">>), List(<<"a", "b">>),
                List(<<"b", "b">>), Scalar("x")}
CellRows == [StopID : StopIDCells, Name : NameCells, Routes : RoutesCells]

\* The frames of at most MaxFrameRows rows, with pandas' default index 0, 1, ...
Frames ==
    UNION {{[columns |-> SourceColumns,
             rows |-> [i \in 1..n |-> [idx |-> i - 1, cells |-> f[i]]]] :
                f \in [1..n -> CellRows]} : n \in 0..MaxFrameRows}

\* "Zone" is a column no source frame has.
Selections == {<<"StopID", "Routes">>, <<"StopID", "Name", "Routes">>,
               <<"Routes", "Name">>, <<"StopID", "Name">>, <<"StopID", "Zone">>}
Explosions == {<<>>, <<"Routes">>, <<"Name">>, <<"Routes", "Name">>,
               <<"Name", "Routes">>, <<"Routes", "Routes">>, <<"Zone">>,
               <<"Routes", "Zone">>}

\* df_origin[cols_to_select].copy()
Select(df, cols) ==
    [columns |-> Range(cols),
     rows |-> [i \in 1..Len(df.rows) |->
                 [idx |-> df.rows[i].idx,
                  cells |-> [c \in Range(cols) |-> df.rows[i].cells[c]]]]]

\* df_result[col].apply(lambda x: isinstance(x, list)).all()
AllLists(df, col) ==
    \A i \in 1..Len(df.rows) : df.rows[i].cells[col].k = "list"

\* DataFrame.explode on one row: one row per element, the index repeated;
\* an empty list gives one row holding NaN; a cell that is no list is kept.
ExplodeRowDroppingEmpty(r, col) ==
    LET c == r.cells[col] IN
    IF c.k = "list"
    THEN [j \in 1..Len(c.v) |-> [r EXCEPT !.cells[col] = Scalar(c.v[j])]]
    ELSE <<r>>

ExplodeRowReversed(r, col) ==
    LET c == r.cells[col] IN
    IF c.k = "list"
    THEN IF Len(c.v) = 0
         THEN <<[r EXCEPT !.cells[col] = NaN]>>
         ELSE [j \in 1..Len(c.v) |->
                  [r EXCEPT !.cells[col] = Scalar(c.v[Len(c.v) + 1 - j])]]
    ELSE <<r>>

ExplodeRow(r, col) ==
    LET c == r.cells[col] IN
    IF c.k = "list"
    THEN IF Len(c.v) = 0
         THEN <<[r EXCEPT !.cells[col] = NaN]>>
         ELSE [j \in 1..Len(c.v) |-> [r EXCEPT !.cells[col] = Scalar(c.v[j])]]
    ELSE <<r>>

RECURSIVE ExplodeRows(_, _)
ExplodeRows(rows, col) ==
    IF rows = <<>> THEN <<>>
    ELSE ExplodeRow(Head(rows), col) \o ExplodeRows(Tail(rows), col)

\* df_result.explode(col_to_explode)
explode(df, col) == [df EXCEPT !.rows = ExplodeRows(df.rows, col)]

\* The except branches: the message is printed and None is returned.
Failed(exc) == [status |-> exc, columns |-> {}, rows |-> <<>>]
Returns(df) == [status |-> "ok", columns |-> df.columns, rows |-> df.rows]

\* for col_to_explode in cols_to_explode: ... ; return df_result
RECURSIVE ExplodeLoopSkipping(_, _)
ExplodeLoopSkipping(df, cols) ==
    IF cols = <<>> THEN Returns(df)
    ELSE IF Head(cols) \notin df.columns
    THEN ExplodeLoopSkipping(df, Tail(cols))
    ELSE IF AllLists(df, Head(cols))
    THEN ExplodeLoopSkipping(explode(df, Head(cols)), Tail(cols))
    ELSE ExplodeLoopSkipping(df, Tail(cols))

RECURSIVE ExplodeLoopBreaking(_, _)
ExplodeLoopBreaking(df, cols) ==
    IF cols = <<>> THEN Returns(df)
    ELSE IF Head(cols) \notin df.columns
    THEN Failed("KeyError")
    ELSE IF AllLists(df, Head(cols))
    THEN ExplodeLoopBreaking(explode(df, Head(cols)), Tail(cols))
    ELSE Returns(df)

RECURSIVE ExplodeLoop(_, _)
ExplodeLoop(df, cols) ==
    IF cols = <<>> THEN Returns(df)
    ELSE IF Head(cols) \notin df.columns
    THEN Failed("KeyError")
    ELSE IF AllLists(df, Head(cols))
    THEN ExplodeLoop(explode(df, Head(cols)), Tail(cols))
    ELSE ExplodeLoop(df, Tail(cols))

explode_columns(df, cols_select, cols_explode) ==
    IF ~(Range(cols_select) \subseteq df.columns)
    THEN Failed("KeyError")
    ELSE ExplodeLoop(Select(df, cols_select), cols_explode)

(***************************************************************************)
(* explode_columns is a function of its arguments: they are drawn at the   *)
(* start and the one step is the call.                                     *)
(***************************************************************************)
InitExplode ==
    /\ NoCalls
    /\ FirstRun
    /\ df_origin \in Frames
    /\ cols_to_select \in Selections
    /\ cols_to_explode \in Explosions
    /\ df_result = NotRun

ExplodeColumns ==
    /\ df_result.status = "pending"
    /\ df_result' = explode_columns(df_origin, cols_to_select, cols_to_explode)
    /\ UNCHANGED <<writer_vars, pipeline_vars, df_origin, cols_to_select,
                   cols_to_explode>>

NextExplode == ExplodeColumns

SpecExplode == InitExplode /\ [][NextExplode]_vars

(***************************************************************************)
(* The claims about explode_columns, stated on its arguments and on what   *)
(* it returned, by row positions and index arithmetic.                     *)
(***************************************************************************)
Exploded == df_result.status = "ok"

\* The names all present: what is selected is in the source, what is to be
\* exploded is selected.
NamesPresent ==
    /\ Range(cols_to_select) \subseteq df_origin.columns
    /\ Range(cols_to_explode) \subseteq Range(cols_to_select)

\* The source row with index label i, and the output rows that carry it.
SourceRow(i) == df_origin.rows[i + 1]
SourceLabels == {df_origin.rows[n].idx : n \in 1..Len(df_origin.rows)}
OutputOf(i) == SelectSeq(df_result.rows, LAMBDA r : r.idx = i)

\* Column c of the source holds a list in every cell.
IsListColumn(c) ==
    \A n \in 1..Len(df_origin.rows) : df_origin.rows[n].cells[c].k = "list"

RECURSIVE Distinct(_)
Distinct(s) ==
    IF s = <<>> THEN <<>>
    ELSE LET d == Distinct(SubSeq(s, 1, Len(s) - 1)) IN
         IF s[Len(s)] \in Range(d) THEN d ELSE Append(d, s[Len(s)])

\* The explode columns whose cells are all lists, in cols_to_explode's order.
ListColumns == SelectSeq(Distinct(cols_to_explode), IsListColumn)

ListLen(i, c) == Len(SourceRow(i).cells[c].v)
Width(i, c) == IF ListLen(i, c) = 0 THEN 1 ELSE ListLen(i, c)

RECURSIVE LenProduct(_, _)
LenProduct(i, cols) ==
    IF cols = <<>> THEN 1
    ELSE ListLen(i, Head(cols)) * LenProduct(i, Tail(cols))

RECURSIVE WidthProduct(_, _)
WidthProduct(i, cols) ==
    IF cols = <<>> THEN 1
    ELSE Width(i, Head(cols)) * WidthProduct(i, Tail(cols))

\* The position in its list of the element that the j-th output row of
\* source row i holds in the k-th list column: the columns exploded later
\* vary fastest.
ElementAt(i, j, k) ==
    (((j - 1) \div WidthProduct(i, SubSeq(ListColumns, k + 1, Len(ListColumns))))
        % Width(i, ListColumns[k])) + 1

\* C6 as claimed: a source row whose list has length N is replaced by exactly
\* N output rows, for every N >= 0 (N the product of the lengths when several
\* columns are exploded), so zero rows for an empty list.
C6_RowsPerListLength ==
    (Exploded /\ NamesPresent) =>
        \A i \in SourceLabels : Len(OutputOf(i)) = LenProduct(i, ListColumns)

\* C6 amended: a source row whose list has length N >= 1 is replaced by
\* exactly N output rows, and one whose list is empty by exactly one output
\* row, whose cell in that column is null.
C6_RowsPerListLengthOrOne ==
    (Exploded /\ NamesPresent) =>
        \A i \in SourceLabels :
            /\ Len(OutputOf(i)) = WidthProduct(i, ListColumns)
            /\ \A k \in 1..Len(ListColumns) :
                ListLen(i, ListColumns[k]) = 0 =>
                    \A j \in 1..Len(OutputOf(i)) :
                        OutputOf(i)[j].cells[ListColumns[k]] = NaN

\* One source row with an empty list and one with a list of two have been
\* exploded: one output row and two.
C6_Witness ==
    /\ Exploded
    /\ cols_to_explode = <<"Routes">>
    /\ Len(df_origin.rows) = 2
    /\ SourceRow(0).cells["Routes"] = List(<<>>)
    /\ SourceRow(1).cells["Routes"] = List(<<"a", "b">>)
    /\ Len(OutputOf(0)) = 1
    /\ Len(OutputOf(1)) = 2
    /\ Len(df_result.rows) = 3

\* The output keeps the selected columns, follows the source's row order,
\* and carries in every column that is not exploded the value of its source row.
KeepsValuesAndRowOrder ==
    /\ df_result.columns = Range(cols_to_select)
    /\ \A n \in 1..Len(df_result.rows) :
        /\ df_result.rows[n].idx \in SourceLabels
        /\ n > 1 => df_result.rows[n - 1].idx <= df_result.rows[n].idx
        /\ \A c \in Range(cols_to_select) \ Range(ListColumns) :
            df_result.rows[n].cells[c] = SourceRow(df_result.rows[n].idx).cells[c]
    /\ \A i \in SourceLabels, c \in Range(cols_to_select) \ Range(ListColumns) :
        \E n \in 1..Len(df_result.rows) :
            /\ df_result.rows[n].idx = i
            /\ df_result.rows[n].cells[c] = SourceRow(i).cells[c]

\* C7 as claimed: every output row carries the non-exploded values of its
\* source row, the rows follow source order, no such value is dropped, and
\* in an exploded column the output rows of one source row hold the
\* elements of its list, in list order.
C7_ValuesAndOrder ==
    (Exploded /\ NamesPresent) =>
        /\ KeepsValuesAndRowOrder
        /\ \A i \in SourceLabels, k \in 1..Len(ListColumns) :
            \A j \in 1..Len(OutputOf(i)) :
                /\ ElementAt(i, j, k) <= ListLen(i, ListColumns[k])
                /\ OutputOf(i)[j].cells[ListColumns[k]] =
                      Scalar(SourceRow(i).cells[ListColumns[k]].v[ElementAt(i, j, k)])

\* C7 amended: the same, except that a source row whose list is empty keeps
\* one row, whose exploded cell is null.
C7_ValuesAndOrderOrNull ==
    (Exploded /\ NamesPresent) =>
        /\ KeepsValuesAndRowOrder
        /\ \A i \in SourceLabels, k \in 1..Len(ListColumns) :
            \A j \in 1..Len(OutputOf(i)) :
                IF ListLen(i, ListColumns[k]) = 0
                THEN OutputOf(i)[j].cells[ListColumns[k]] = NaN
                ELSE /\ ElementAt(i, j, k) <= ListLen(i, ListColumns[k])
                     /\ OutputOf(i)[j].cells[ListColumns[k]] =
                          Scalar(SourceRow(i).cells[ListColumns[k]].v[ElementAt(i, j, k)])

\* Two rows with different stops, two list columns exploded: the second
\* source row gives the four rows (p,a), (p,b), (q,a), (q,b) in this order.
C7_Witness ==
    /\ Exploded
    /\ cols_to_select = <<"StopID", "Name", "Routes">>
    /\ cols_to_explode = <<"Name", "Routes">>
    /\ Len(df_origin.rows) = 2
    /\ SourceRow(0).cells["StopID"] = Scalar("s2")
    /\ SourceRow(1).cells["StopID"] = Scalar("s1")
    /\ SourceRow(0).cells["Routes"] = List(<<"a">>)
    /\ SourceRow(1).cells["Routes"] = List(<<"a", "b">>)
    /\ IsListColumn("Name")
    /\ Len(OutputOf(1)) = 4
    /\ OutputOf(1)[2].cells["StopID"] = Scalar("s1")
    /\ OutputOf(1)[2].cells["Name"] = Scalar("p")
    /\ OutputOf(1)[2].cells["Routes"] = Scalar("b")
    /\ OutputOf(1)[3].cells["Name"] = Scalar("q")
    /\ OutputOf(1)[3].cells["Routes"] = Scalar("a")

\* C8: once explode_columns has run with a name in cols_to_select that the
\* source lacks, or a name in cols_to_explode that is not selected, it has
\* failed on the missing column (the KeyError branch) and returned no table,
\* whatever it had exploded before; with every name present it has not failed.
C8_MissingColumnFails ==
    df_result.status # "pending" =>
        /\ ~NamesPresent =>
            /\ df_result.status = "KeyError"
            /\ df_result.rows = <<>>
            /\ df_result.columns = {}
        /\ NamesPresent => df_result.status = "ok"

\* The missing column comes after a column that was exploded: the rows
\* exploded so far are not returned.
C8_Witness ==
    /\ cols_to_select = <<"StopID", "Routes">>
    /\ cols_to_explode = <<"Routes", "Zone">>
    /\ Len(df_origin.rows) = 2
    /\ IsListColumn("Routes")
    /\ ListLen(0, "Routes") = 2
    /\ df_result.status = "KeyError"
    /\ df_result.rows = <<>>

\* The explode columns of which some source cell is not a list.
NonListColumns == {c \in Range(cols_to_explode) : ~IsListColumn(c)}

\* C9: when an explode column holds a cell that is not a list,
\* explode_columns does not fail, every output row holds in that column the
\* cell of its source row, the column adds no row, and every other explode
\* column whose cells are all lists is exploded, whatever the order of
\* cols_to_explode: the result is that of exploding the list columns alone.
C9_NonListColumnSkipped ==
    (df_result.status # "pending" /\ NamesPresent /\ NonListColumns # {}) =>
        /\ df_result.status = "ok"
        /\ \A n \in 1..Len(df_result.rows), c \in NonListColumns :
            df_result.rows[n].cells[c] = SourceRow(df_result.rows[n].idx).cells[c]
        /\ \A i \in SourceLabels :
            Len(OutputOf(i)) = WidthProduct(i, ListColumns)
        /\ \A n \in 1..Len(df_result.rows), k \in 1..Len(ListColumns) :
            df_result.rows[n].cells[ListColumns[k]].k # "list"
        /\ df_result = explode_columns(df_origin, cols_to_select, ListColumns)

\* The column that is not all lists comes first in cols_to_explode, and the
\* column after it is exploded into two rows.
C9_Witness ==
    /\ Exploded
    /\ cols_to_select = <<"StopID", "Name", "Routes">>
    /\ cols_to_explode = <<"Name", "Routes">>
    /\ Len(df_origin.rows) = 2
    /\ SourceRow(0).cells["Name"] = Scalar("n")
    /\ SourceRow(1).cells["Name"] = List(<<"p", "q">>)
    /\ SourceRow(1).cells["Routes"] = List(<<"a", "b">>)
    /\ IsListColumn("Routes")
    /\ Len(OutputOf(1)) = 2
    /\ OutputOf(1)[1].cells["Name"] = List(<<"p", "q">>)
    /\ OutputOf(1)[2].cells["Routes"] = Scalar("b")

(***************************************************************************)
(* The pipeline script (the module body of ProyectoFinal.py), one run      *)
(* after another over the same data lake.  A pandas frame has rows with an *)
(* index label and cells; a Delta table has rows of cells.                 *)
(***************************************************************************)
StopColumns == {"StopID", "Name", "Routes"}
PositionColumns == {"VehicleID", "BlockNumber"}
StampColumns == {"fecha_consulta", "hora_consulta"}

Stop(id, routes) == [StopID |-> id, Name |-> Scalar("n"), Routes |-> routes]
Position(vehicle, block) == [VehicleID |-> vehicle, BlockNumber |-> block]

\* What get_data returns: the list under the data field, or None when the
\* request or the decoding failed.
JsonList(rows) == [kind |-> "list", columns |-> {}, rows |-> rows]

StopFeeds ==
    {None,
     JsonList(<<Stop(Scalar("1"), List(<<"a", "b">>))>>),
     JsonList(<<Stop(Scalar("2"), List(<<"a">>)),
                Stop(Scalar("1"), List(<<"b">>))>>),
     JsonList(<<Stop(Scalar("1"), List(<<"a">>)),
                Stop(Scalar("1"), List(<<"b">>))>>),
     JsonList(<<Stop(Scalar("01"), List(<<"a", "a">>)),
                Stop(Scalar("2"), List(<<>>))>>),
     JsonList(<<Stop(NaN, List(<<"a">>))>>)}

PositionFeeds ==
    {None,
     JsonList(<<>>),
     JsonList(<<Position(Scalar("7"), Scalar("b"))>>),
     JsonList(<<Position(Scalar("8"), NaN)>>),
     JsonList(<<Position(Scalar("7"), Scalar("b")),
                Position(Scalar("7"), NaN)>>),
     JsonList(<<Position(Scalar("7"), NaN),
                Position(Scalar("8"), Scalar("b"))>>)}

\* What requests.get comes back with: an exception of requests (error), or a
\* response with its status code and its body.
Response(data_field, error, status_code, body) ==
    [data_field |-> data_field, error |-> error, status_code |-> status_code,
     body |-> body]

Text == [kind |-> "text", fields |-> {}, data |-> None]
Json(fields, data) == [kind |-> "json", fields |-> fields, data |-> data]

\* The responses to the request of one data field whose lists are feeds.
Responses(data_field, feeds) ==
    LET lists == feeds \ {None}
        some == CHOOSE l \in lists : l.rows # <<>> IN
    {Response(data_field, "ConnectionError", 0, Text),
     Response(data_field, "Timeout", 0, Text),
     Response(data_field, "none", 200, Text),
     Response(data_field, "none", 200, Json({"Message"}, some)),
     Response(data_field, "none", 300, Json({data_field}, some)),
     Response(data_field, "none", 404, Json({data_field}, some)),
     Response(data_field, "none", 500, Text)}
    \cup {Response(data_field, "none", 200, Json({data_field}, l)) : l \in lists}

\* except requests.exceptions.HTTPError, in place of RequestException
CatchesHTTPError(e) == e = "HTTPError"

\* except requests.exceptions.RequestException
RequestExceptions == {"ConnectionError", "Timeout", "HTTPError"}
CatchesRequestException(e) == e \in RequestExceptions

\* requests.get(...) and response.raise_for_status(): what they raise.
RequestRaises(resp) ==
    IF resp.error # "none" THEN resp.error
    ELSE IF resp.status_code >= 400 /\ resp.status_code < 600 THEN "HTTPError"
    ELSE "none"

\* response.json() and data[data_field]: what they raise.
DecodeRaises(resp, data_field) ==
    IF resp.body.kind # "json" THEN "JSONDecodeError"
    ELSE IF data_field \notin resp.body.fields THEN "KeyError"
    ELSE "none"

\* get_data: what it raises to its caller, what it returns and what it prints.
get_data(resp, data_field) ==
    IF RequestRaises(resp) # "none"
    THEN IF CatchesRequestException(RequestRaises(resp))
         THEN [raised |-> "none", value |-> None,
               printed |-> <<"La peticion ha fallado">>]
         ELSE [raised |-> RequestRaises(resp), value |-> None, printed |-> <<>>]
    ELSE IF DecodeRaises(resp, data_field) # "none"
    THEN [raised |-> "none", value |-> None,
          printed |-> <<"El formato de respuesta no es el esperado">>]
    ELSE [raised |-> "none", value |-> resp.body.data, printed |-> <<>>]

\* A frame over rows of cells, with pandas' default index 0, 1, ...
Indexed(columns, rows) ==
    DataFrame(columns, [i \in 1..Len(rows) |-> [idx |-> i - 1, cells |-> rows[i]]])

\* The columns of a list of records: the keys of its records.
KeysOf(json, columns) == IF json.rows = <<>> THEN {} ELSE columns

\* build_table: pd.json_normalize(json_data); on None it raises, which the
\* bare except turns into None.
build_table(json_data) ==
    IF json_data.kind = "None" THEN None
    ELSE Indexed(KeysOf(json_data, StopColumns), json_data.rows)

\* build_table_incremental: pd.DataFrame(json_data), an empty frame for None,
\* with the date and the time of the extraction (datetime.now(), formatted)
\* added to every row.
Stamped(row, clock) ==
    [c \in DOMAIN row \cup StampColumns |->
        IF c \in StampColumns THEN Scalar(ToString(clock)) ELSE row[c]]

build_table_incremental(json_data, clock) ==
    Indexed(KeysOf(json_data, PositionColumns) \cup StampColumns,
            [i \in 1..Len(json_data.rows) |-> Stamped(json_data.rows[i], clock)])

\* pa.Table.from_pandas, as the writers apply it: the rows' cells, an array
\* cell stored as a list.
AsStored(cell) == IF cell.k = "ndarray" THEN List(cell.v) ELSE cell

from_pandas(df) ==
    IF df.kind # "DataFrame" THEN None
    ELSE DataFrame(df.columns,
                   [i \in 1..Len(df.rows) |->
                       [c \in df.columns |-> AsStored(df.rows[i].cells[c])]])

\* DeltaTable(path).to_pandas(): the table's rows under a fresh index, a
\* list cell read back as a numpy array (AsReadList: as a Python list).
AsReadList(cell) == cell
AsRead(cell) == IF cell.k = "list" THEN [k |-> "ndarray", v |-> cell.v] ELSE cell

to_pandas(tbl) ==
    Indexed(tbl.columns,
            [i \in 1..Len(tbl.rows) |->
                [c \in tbl.columns |-> AsRead(tbl.rows[i][c])]])

\* df.fillna({col: value})
fillna(df, col, value) ==
    IF col \notin df.columns THEN df
    ELSE [df EXCEPT !.rows =
            [i \in 1..Len(df.rows) |->
                IF df.rows[i].cells[col] = NaN
                THEN [df.rows[i] EXCEPT !.cells[col] = Scalar(value)]
                ELSE df.rows[i]]]

\* df.astype({col: an integer type}) raises on a missing column and on a null.
AstypeRaises(df, col) ==
    \/ col \notin df.columns
    \/ \E i \in 1..Len(df.rows) : df.rows[i].cells[col] = NaN

\* int(s) for the numeral s, written back in decimal: "01" is 1.
IntOf(cell) == IF cell = Scalar("01") THEN Scalar("1") ELSE cell

\* df.astype({col: an integer type}), where it does not raise.
astype(df, col) ==
    [df EXCEPT !.rows = [i \in 1..Len(df.rows) |->
        [df.rows[i] EXCEPT !.cells[col] = IntOf(@)]]]

\* df.drop_duplicates(subset=col, keep="first") without the filter.
KeepAll(df, col) == df

\* df.drop_duplicates(subset=col, keep="first"): the rows keep their labels.
drop_duplicates(df, col) ==
    [df EXCEPT !.rows =
        SelectSeq(df.rows, LAMBDA r :
            \A i \in 1..Len(df.rows) :
                df.rows[i].cells[col] = r.cells[col] => df.rows[i].idx >= r.idx)]

\* df.rename(columns={old: new}) and df.drop(columns=[col])
Renamed(cells, old, new) ==
    [c \in (DOMAIN cells \ {old}) \cup {new} |->
        IF c = new THEN cells[old] ELSE cells[c]]

rename(df, old, new) ==
    IF old \notin df.columns THEN df
    ELSE [df EXCEPT !.columns = (df.columns \ {old}) \cup {new},
                    !.rows = [i \in 1..Len(df.rows) |->
                                [df.rows[i] EXCEPT
                                    !.cells = Renamed(df.rows[i].cells, old, new)]]]

drop(df, col) ==
    [df EXCEPT !.columns = df.columns \ {col},
               !.rows = [i \in 1..Len(df.rows) |->
                           [df.rows[i] EXCEPT
                               !.cells = [c \in df.columns \ {col} |->
                                             df.rows[i].cells[c]]]]]

\* ast.literal_eval(x) if isinstance(x, str) else x
literal_eval(cell) == IF cell.k = "str" THEN List(cell.v) ELSE cell

ParseRoutes(df) ==
    [df EXCEPT !.rows = [i \in 1..Len(df.rows) |->
        [df.rows[i] EXCEPT !.cells["Routes"] = literal_eval(@)]]]

\* explode_columns returns the frame or, after an except branch, None.
AsFrame(result) ==
    IF result.status = "ok" THEN DataFrame(result.columns, result.rows) ELSE None

(***************************************************************************)
(* The steps of a run, in the script's order.  A step that raises ends the *)
(* run (status "aborted", pc left at the step that raised); the next run   *)
(* is a new process over the same data lake.                               *)
(***************************************************************************)
\* A script that writes the silver positions before it writes the bronze.
StepsSilverFirst ==
    <<"get_data_stops", "build_table", "get_data_positions",
      "build_table_incremental", "save_silver_positions", "save_bronze_stops",
      "save_bronze_positions", "read_bronze", "transform",
      "save_silver_stops", "save_silver_routes", "end">>

Steps == <<"get_data_stops", "build_table", "get_data_positions",
           "build_table_incremental", "save_bronze_stops",
           "save_bronze_positions", "read_bronze", "transform",
           "save_silver_stops", "save_silver_positions", "save_silver_routes",
           "end">>

StepIndex(step) == CHOOSE i \in 1..Len(Steps) : Steps[i] = step

At(step) == status = "running" /\ pc = step

\* A script that goes on whatever the step at pc raised.
GoesOn(raised) ==
    /\ pc' = Steps[StepIndex(pc) + 1]
    /\ status' = IF StepIndex(pc) + 1 = Len(Steps) THEN "done" ELSE "running"
    /\ executed' = Append(executed, pc)

\* The step at pc has run: the script goes on, ends, or dies with what the
\* step raised.
Goes(raised) ==
    IF raised # "none"
    THEN pc' = pc /\ status' = "aborted" /\ executed' = executed
    ELSE /\ pc' = Steps[StepIndex(pc) + 1]
         /\ status' = IF StepIndex(pc) + 1 = Len(Steps) THEN "done" ELSE "running"
         /\ executed' = Append(executed, pc)

\* json_paradas_bus = get_data(base_url, endpointFull, data_field="Stops", ...)
GetDataStops ==
    /\ At("get_data_stops")
    /\ \E resp \in Responses("Stops", StopFeeds) :
        LET got == get_data(resp, "Stops") IN
        /\ response' = resp
        /\ stdout' = stdout \o got.printed
        /\ json_paradas_bus' = got.value
        /\ Goes(got.raised)
    /\ UNCHANGED <<writer_vars, explode_vars, before, complete, datalake, now, json_posiciones_bus,
                   dataFrameFull, dataFrameIncremental, dataFrameFull_Routes>>

\* dataFrameFull = build_table(json_paradas_bus)
BuildTable ==
    /\ At("build_table")
    /\ dataFrameFull' = build_table(json_paradas_bus)
    /\ stdout' = IF build_table(json_paradas_bus) = None
                 THEN Append(stdout, "Los datos no estan en el formato esperado")
                 ELSE stdout
    /\ Goes("none")
    /\ UNCHANGED <<writer_vars, explode_vars, before, complete, response, datalake, now, json_paradas_bus,
                   json_posiciones_bus, dataFrameIncremental,
                   dataFrameFull_Routes>>

\* json_posiciones_bus = get_data(base_url, endpointIncremental, ...)
GetDataPositions ==
    /\ At("get_data_positions")
    /\ \E resp \in Responses("BusPositions", PositionFeeds) :
        LET got == get_data(resp, "BusPositions") IN
        /\ response' = resp
        /\ stdout' = stdout \o got.printed
        /\ json_posiciones_bus' = got.value
        /\ Goes(got.raised)
    /\ UNCHANGED <<writer_vars, explode_vars, before, complete, datalake, now, json_paradas_bus,
                   dataFrameFull, dataFrameIncremental, dataFrameFull_Routes>>

\* dataFrameIncremental = build_table_incremental(json_posiciones_bus)
BuildTableIncremental ==
    /\ At("build_table_incremental")
    /\ dataFrameIncremental' = build_table_incremental(json_posiciones_bus, now)
    /\ Goes("none")
    /\ UNCHANGED <<writer_vars, explode_vars, before, complete, log_vars, datalake, now, json_paradas_bus,
                   json_posiciones_bus, dataFrameFull, dataFrameFull_Routes>>

\* save_new_data_as_delta(df, location, predicate) as a step of the script.
Upsert(step, df, location, predicate) ==
    /\ At(step)
    /\ \E fault \in Faults :
        LET r == save_new_data_as_delta(datalake[location], from_pandas(df),
                                        predicate, <<>>, fault) IN
        /\ datalake' = [datalake EXCEPT ![location] = r.table]
        /\ Goes(r.raised)
    /\ UNCHANGED <<writer_vars, explode_vars, before, complete, log_vars, now, json_paradas_bus,
                   json_posiciones_bus, dataFrameFull, dataFrameIncremental,
                   dataFrameFull_Routes>>

\* A frame built from no record holds the two stamp columns only, of dtype
\* object and empty: Arrow types them null, which no Delta table can hold.
NullTyped(df) == df.rows = <<>> /\ df.columns \subseteq StampColumns

\* What the storage may do with the frame: take it, or fail.
WriteFaults(df) == IF NullTyped(df) THEN {"write"} ELSE {"none", "write"}

\* save_data_as_delta(df, location, partition_cols=["fecha_consulta",
\* "hora_consulta"]) as a step of the script: no mode is given.
FullWrite(step, df, location) ==
    /\ At(step)
    /\ \E fault \in WriteFaults(df) :
        LET r == save_data_as_delta(datalake[location], from_pandas(df),
                                    "unspecified",
                                    <<"fecha_consulta", "hora_consulta">>,
                                    fault) IN
        /\ datalake' = [datalake EXCEPT ![location] = r.table]
        /\ Goes(r.raised)
    /\ UNCHANGED <<writer_vars, explode_vars, before, complete, log_vars, now, json_paradas_bus,
                   json_posiciones_bus, dataFrameFull, dataFrameIncremental,
                   dataFrameFull_Routes>>

SaveBronzeStops ==
    Upsert("save_bronze_stops", dataFrameFull, "bronze/stop_Search", {"StopID"})

SaveBronzePositions ==
    FullWrite("save_bronze_positions", dataFrameIncremental,
              "bronze/bus_Position")

\* dataFrameFull = DeltaTable(paradas_buses).to_pandas(), and the same for
\* the positions; opening a table may fail.
ReadBronze ==
    /\ At("read_bronze")
    /\ \E fault \in {"none", "open"} :
        IF \/ fault = "open"
           \/ ~datalake["bronze/stop_Search"].exists
           \/ ~datalake["bronze/bus_Position"].exists
        THEN Goes("DeltaError") /\ UNCHANGED <<dataFrameFull, dataFrameIncremental>>
        ELSE /\ dataFrameFull' = to_pandas(datalake["bronze/stop_Search"])
             /\ dataFrameIncremental' = to_pandas(datalake["bronze/bus_Position"])
             /\ Goes("none")
    /\ UNCHANGED <<writer_vars, explode_vars, before, complete, log_vars, datalake, now, json_paradas_bus,
                   json_posiciones_bus, dataFrameFull_Routes>>

\* The cleaning of the two frames: fillna, astype, drop_duplicates, rename,
\* the parsing and the explosion of Routes, the drop of Routes.
CleanPositions(df) ==
    drop_duplicates(astype(fillna(df, "BlockNumber", "Null"), "VehicleID"),
                    "VehicleID")

CleanStops(df) ==
    ParseRoutes(rename(drop_duplicates(astype(df, "StopID"), "StopID"),
                       "Name", "Stop_Name"))

Transform ==
    /\ At("transform")
    /\ IF \/ AstypeRaises(dataFrameFull, "StopID")
          \/ AstypeRaises(fillna(dataFrameIncremental, "BlockNumber", "Null"),
                          "VehicleID")
          \/ "Routes" \notin dataFrameFull.columns
       THEN /\ Goes("KeyError")
            /\ UNCHANGED <<dataFrameFull, dataFrameIncremental,
                           dataFrameFull_Routes, stdout>>
       ELSE /\ dataFrameIncremental' = CleanPositions(dataFrameIncremental)
            /\ stdout' = IF AllLists(CleanStops(dataFrameFull), "Routes")
                         THEN stdout
                         ELSE Append(stdout, "Advertencia: la columna no contiene listas")
            /\ dataFrameFull_Routes' =
                  AsFrame(explode_columns(CleanStops(dataFrameFull),
                                          <<"StopID", "Routes">>, <<"Routes">>))
            /\ dataFrameFull' = drop(CleanStops(dataFrameFull), "Routes")
            /\ Goes("none")
    /\ UNCHANGED <<writer_vars, explode_vars, before, complete, response, datalake, now,
                   json_paradas_bus, json_posiciones_bus>>

SaveSilverStops ==
    Upsert("save_silver_stops", dataFrameFull, "silver/stop_Search", {"StopID"})

SaveSilverPositions ==
    FullWrite("save_silver_positions", dataFrameIncremental,
              "silver/bus_Position")

SaveSilverRoutes ==
    Upsert("save_silver_routes", dataFrameFull_Routes,
           "silver/stop_Search_Routes", {"StopID", "Routes"})

\* The script is run again, later.
NextRun ==
    /\ status \in {"done", "aborted"}
    /\ now < MaxRuns
    /\ now' = now + 1
    /\ pc' = "get_data_stops"
    /\ status' = "running"
    /\ json_paradas_bus' = None
    /\ json_posiciones_bus' = None
    /\ dataFrameFull' = None
    /\ dataFrameIncremental' = None
    /\ dataFrameFull_Routes' = None
    /\ response' = NoResponse
    /\ stdout' = <<>>
    /\ before' = datalake
    /\ complete' = IF status = "done" THEN datalake ELSE complete
    /\ executed' = <<>>
    /\ UNCHANGED <<writer_vars, explode_vars, datalake>>

InitPipeline == NoCalls /\ NoExplode /\ FirstRun

NextPipeline ==
    \/ GetDataStops
    \/ BuildTable
    \/ GetDataPositions
    \/ BuildTableIncremental
    \/ SaveBronzeStops
    \/ SaveBronzePositions
    \/ ReadBronze
    \/ Transform
    \/ SaveSilverStops
    \/ SaveSilverPositions
    \/ SaveSilverRoutes
    \/ NextRun

SpecPipeline == InitPipeline /\ [][NextPipeline]_vars

(***************************************************************************)
(* The position tables across runs.                                        *)
(***************************************************************************)
\* The run in progress, or just ended, has executed the step.
Executed(step) == StepIndex(pc) > StepIndex(step)

\* The rows of this run's fetch of the positions, as build_table_incremental
\* stamps them.
FetchedPositions == build_table_incremental(json_posiciones_bus, now)

\* The stored row carries this run's stamp and the vehicle and the block of a
\* fetched row, the block filled where the fetch had none.
FromLatestFetch(row) ==
    /\ DOMAIN row = PositionColumns \cup StampColumns
    /\ \E i \in 1..Len(FetchedPositions.rows) :
        LET fetched == FetchedPositions.rows[i].cells IN
        /\ row.VehicleID = fetched.VehicleID
        /\ row.fecha_consulta = fetched.fecha_consulta
        /\ row.hora_consulta = fetched.hora_consulta
        /\ row.BlockNumber \in {fetched.BlockNumber,
                                fillna(FetchedPositions, "BlockNumber",
                                       "Null").rows[i].cells.BlockNumber}

OnlyLatestFetch(location) ==
    \A i \in 1..Len(datalake[location].rows) :
        FromLatestFetch(datalake[location].rows[i])

\* C10 (as stated): save_data_as_delta called without a mode replaces all the
\* data at the location, and after any sequence of pipeline runs, however the
\* latest one ended, the bronze and the silver position tables hold only the
\* rows of the latest run's fetch.
C10_LatestRunOnly ==
    status \in {"done", "aborted"} =>
        /\ OnlyLatestFetch("bronze/bus_Position")
        /\ OnlyLatestFetch("silver/bus_Position")

\* C10 (amended): save_data_as_delta called without a mode replaces all the
\* data at the location: once a run has executed its write of a position
\* table, the table holds exactly the rows of the batch given to that write,
\* all of them rows of this run's fetch and none written by an earlier run.
C10_OverwriteReplaces ==
    /\ Executed("save_bronze_positions") =>
        /\ datalake["bronze/bus_Position"].exists
        /\ datalake["bronze/bus_Position"].rows =
              from_pandas(FetchedPositions).rows
    /\ Executed("save_silver_positions") =>
        /\ datalake["silver/bus_Position"].exists
        /\ datalake["silver/bus_Position"].rows =
              from_pandas(dataFrameIncremental).rows
        /\ OnlyLatestFetch("silver/bus_Position")

\* C10 witness: the second run has overwritten the bronze positions, which
\* now carry its stamp, over the rows of the first run, whose stamp the
\* silver positions still carry.
C10_Witness ==
    /\ now = 2
    /\ Executed("save_bronze_positions")
    /\ ~Executed("save_silver_positions")
    /\ Len(datalake["bronze/bus_Position"].rows) = 2
    /\ datalake["bronze/bus_Position"].rows[1].hora_consulta = Scalar("2")
    /\ Len(datalake["silver/bus_Position"].rows) = 1
    /\ datalake["silver/bus_Position"].rows[1].hora_consulta = Scalar("1")

(***************************************************************************)
(* The fetch.                                                              *)
(***************************************************************************)
\* The step that fetches the data field, and the variable it assigns.
FetchStep(data_field) ==
    IF data_field = "Stops" THEN "get_data_stops" ELSE "get_data_positions"

Fetched(data_field) ==
    IF data_field = "Stops" THEN json_paradas_bus ELSE json_posiciones_bus

\* The state right after get_data was called with the response.
JustFetched ==
    /\ response # NoResponse
    /\ pc \in {FetchStep(response.data_field),
               Steps[StepIndex(FetchStep(response.data_field)) + 1]}

\* get_data returned None to the script, which goes on, and its last print
\* is a diagnostic.
ReturnedNoneLogged ==
    /\ status = "running"
    /\ pc = Steps[StepIndex(FetchStep(response.data_field)) + 1]
    /\ Fetched(response.data_field) = None
    /\ stdout # <<>>
    /\ stdout[Len(stdout)] \in {"La peticion ha fallado",
                                "El formato de respuesta no es el esperado"}

NetworkError == response.error # "none"
NonJsonBody == response.body.kind # "json"
MissingField == response.data_field \notin response.body.fields

\* C11 (as stated): for a non-2xx response, a network error, a non-JSON body
\* or a JSON body without the named data field, get_data logs and returns
\* None and never raises to its caller.
C11_NonSuccessIsNone ==
    (/\ JustFetched
     /\ \/ NetworkError
        \/ response.status_code \notin 200..299
        \/ NonJsonBody
        \/ MissingField)
    => ReturnedNoneLogged

\* C11 (amended): for a 4xx or 5xx response, a network error, a non-JSON body
\* or a JSON body without the named data field, get_data logs and returns
\* None and never raises to its caller; get_data never raises for any
\* response.
C11_FailureIsNone ==
    JustFetched =>
        /\ status = "running"
        /\ pc # FetchStep(response.data_field)
        /\ (\/ NetworkError
            \/ response.status_code \in 400..599
            \/ NonJsonBody
            \/ MissingField) => ReturnedNoneLogged

\* C11 witness: the positions endpoint answered 404 and the script goes on
\* with None after the diagnostic.
C11_Witness ==
    /\ response.data_field = "BusPositions"
    /\ response.status_code = 404
    /\ pc = "build_table_incremental"
    /\ status = "running"
    /\ json_posiciones_bus = None
    /\ stdout[Len(stdout)] = "La peticion ha fallado"

(***************************************************************************)
(* A run after a failed fetch.                                             *)
(***************************************************************************)
\* get_data returned None for the data field in this run.
FetchFailed(data_field) ==
    /\ FetchStep(data_field) \in Range(executed)
    /\ Fetched(data_field) = None

\* The tables a feed is stored in, and the steps that write them.
TablesOf(data_field) ==
    IF data_field = "Stops"
    THEN {"bronze/stop_Search", "silver/stop_Search",
          "silver/stop_Search_Routes"}
    ELSE {"bronze/bus_Position", "silver/bus_Position"}

WriteSteps(data_field) ==
    IF data_field = "Stops"
    THEN {"save_bronze_stops", "save_silver_stops", "save_silver_routes"}
    ELSE {"save_bronze_positions", "save_silver_positions"}

\* C12: in a run where the fetch of a feed (stops or positions) failed, no
\* write step is executed on that feed's bronze or silver table, the run
\* does not complete, and those tables are as the run found them, so the
\* rows stored by earlier runs are still present when the run ends.
C12_FailedFetchWritesNothing ==
    \A data_field \in {"Stops", "BusPositions"} :
        FetchFailed(data_field) =>
            /\ WriteSteps(data_field) \cap Range(executed) = {}
            /\ status # "done"
            /\ \A location \in TablesOf(data_field) :
                  datalake[location] = before[location]

\* C12 witness: the second run's fetch of the positions failed and the run
\* has ended at the bronze write of the positions, after the stops' one,
\* with the rows of the first run still in the two position tables.
C12_Witness ==
    /\ now = 2
    /\ status = "aborted"
    /\ pc = "save_bronze_positions"
    /\ FetchFailed("BusPositions")
    /\ ~FetchFailed("Stops")
    /\ "save_bronze_stops" \in Range(executed)
    /\ datalake["bronze/bus_Position"].rows # <<>>
    /\ datalake["silver/bus_Position"].rows # <<>>

(***************************************************************************)
(* The order of the steps.                                                 *)
(***************************************************************************)
\* If the later step has been executed in this run, the earlier one was
\* executed before it.
Precedes(earlier, later) ==
    \A j \in 1..Len(executed) :
        executed[j] = later => \E i \in 1..(j - 1) : executed[i] = earlier

RECURSIVE InOrder(_)
InOrder(chain) ==
    \/ Len(chain) < 2
    \/ Precedes(chain[1], chain[2]) /\ InOrder(Tail(chain))

BronzeWrites == {"save_bronze_stops", "save_bronze_positions"}
SilverWrites == {"save_silver_stops", "save_silver_positions",
                 "save_silver_routes"}

\* The step that writes the table at the location.
WriteStepOf(location) ==
    CASE location = "bronze/stop_Search" -> "save_bronze_stops"
      [] location = "bronze/bus_Position" -> "save_bronze_positions"
      [] location = "silver/stop_Search" -> "save_silver_stops"
      [] location = "silver/bus_Position" -> "save_silver_positions"
      [] location = "silver/stop_Search_Routes" -> "save_silver_routes"

\* C13: in every run the steps are executed one at a time and in sequence:
\* for each feed the fetch precedes the normalisation, which precedes the
\* bronze write, which precedes the read of that bronze table, which
\* precedes the transformation, which precedes every silver write; no silver
\* table is written before both bronze writes have completed, and a table
\* differs from what the run found only once its write step was executed.
C13_StepsInSequence ==
    /\ \A i, j \in 1..Len(executed) : executed[i] = executed[j] => i = j
    /\ InOrder(<<"get_data_stops", "build_table", "save_bronze_stops",
                 "read_bronze", "transform", "save_silver_stops">>)
    /\ InOrder(<<"transform", "save_silver_routes">>)
    /\ InOrder(<<"get_data_positions", "build_table_incremental",
                 "save_bronze_positions", "read_bronze", "transform",
                 "save_silver_positions">>)
    /\ \A bronze \in BronzeWrites, silver \in SilverWrites :
          Precedes(bronze, silver)
    /\ \A location \in Locations :
          datalake[location] # before[location] =>
              WriteStepOf(location) \in Range(executed)

\* C13 witness: a run has executed all its steps and written the three
\* silver tables.
C13_Witness ==
    /\ status = "done"
    /\ Len(executed) = Len(Steps) - 1
    /\ \A location \in Locations :
          /\ datalake[location].rows # <<>>
          /\ datalake[location] # before[location]

(***************************************************************************)
(* Concurrent callers of the upsert.                                       *)
(***************************************************************************)
\* The two calls have ended and neither raised.
BothEnded ==
    \A p \in Procs : writers[p].phase = "ended" /\ writers[p].raised = "none"

\* The table two sequential upserts, in the order the calls ended, produce
\* on the absent location.
Sequential ==
    LET first == save_new_data_as_delta(Absent, writers[order[1]].new_data,
                                        {"id"}, <<>>, "none").table IN
    save_new_data_as_delta(first, writers[order[2]].new_data, {"id"}, <<>>,
                           "none").table

\* A row of the first writer is in the table no more.
FirstWriterLost ==
    \E i \in 1..Len(writers[order[1]].new_data.rows) :
        Count(writers[order[1]].new_data.rows[i], table.rows) = 0

\* C14: with two processes calling save_new_data_as_delta on the same absent
\* location, the final table differs from what two sequential upserts
\* produce only where both processes observed table-not-found and both
\* performed the overwriting full write (an interleaving that exists: the
\* witness); with a single writer per location at a time it never differs.
C14_LostOnlyUnderConcurrency ==
    (BothEnded /\ table # Sequential) =>
        /\ ~exclusive
        /\ \A p \in Procs : ~writers[p].found /\ writers[p].path = "fallback"

\* C14 witness: both processes observed table-not-found, both wrote in full,
\* and the table holds the second writer's rows only: a row of the first
\* writer is lost and the table is not the sequential one.
C14_Witness ==
    /\ BothEnded
    /\ \A p \in Procs : ~writers[p].found /\ writers[p].path = "fallback"
    /\ table.rows = writers[order[2]].new_data.rows
    /\ FirstWriterLost
    /\ table # Sequential

(***************************************************************************)
(* The silver stops.                                                       *)
(***************************************************************************)
\* No two rows of the table at the location agree on all the key columns.
UniqueKey(location, key) ==
    \A i, j \in 1..Len(datalake[location].rows) :
        (\A c \in key : datalake[location].rows[i][c] =
                            datalake[location].rows[j][c]) => i = j

\* C15: after any sequence of pipeline runs from empty storage, with any
\* stop feed contents (feeds that repeat a StopID included), the silver
\* stop_Search table holds at most one row per StopID.
C15_SilverStopIDUnique == UniqueKey("silver/stop_Search", {"StopID"})

\* C15 witness: a run has ended with two bronze rows of one StopID, as the
\* feed repeated it, and the silver stops it has written.
C15_Witness ==
    /\ status = "done"
    /\ ~UniqueKey("bronze/stop_Search", {"StopID"})
    /\ datalake["silver/stop_Search"].rows # <<>>
    /\ datalake["silver/stop_Search"] # before["silver/stop_Search"]

(***************************************************************************)
(* The silver routes.                                                      *)
(***************************************************************************)
\* This run has completed, over the bronze stop table that the last earlier
\* complete run left.
RerunOverSameBronze ==
    /\ status = "done"
    /\ complete["silver/stop_Search_Routes"].exists
    /\ datalake["bronze/stop_Search"] = complete["bronze/stop_Search"]

====
